---------------------------- MODULE Spec2Model ----------------------------
(***************************************************************************)
(* A model of libOpenDRIVE's generic numeric/geometry kernel (Utils.hpp:   *)
(* generate_mesh_from_borders, golden_section_search, rdp, SharedPtrCmp)   *)
(* and of RoadSet (Road.h).                                                *)
(*                                                                         *)
(* Each function of the kernel is pure; it is modelled as an operator that *)
(* is computed the way the code computes it, and a specification draws the *)
(* inputs of one call from bounded sets and applies the operator.          *)
(*   SpecMesh     generate_mesh_from_borders                               *)
(*   SpecRoadSet  RoadSet (std::set ordered by SharedPtrCmp on Road::id)   *)
(*   SpecRdp      rdp with its default arguments, and rdp on its output    *)
(*   SpecRdpRange rdp with start_idx, step and _end_idx given              *)
(*   SpecGss      golden_section_search                                    *)
(***************************************************************************)
EXTENDS Integers, Sequences, FiniteSets

VARIABLES
    inner_border,   \* generate_mesh_from_borders: argument inner_border
    outer_border,   \* generate_mesh_from_borders: argument outer_border
    mesh_pc,        \* "idle" | "returned" | "thrown"
    out_mesh,       \* the local out_mesh when the call ended
    road_id,        \* the Road objects constructed so far: object -> Road::id
    road_set,       \* a RoadSet, as the sequence its iteration visits
    road_inserted,  \* the Road objects insert() was called with (history)
    points,         \* rdp: argument points
    epsilon,        \* rdp: argument epsilon
    start_idx,      \* rdp: argument start_idx
    step,           \* rdp: argument step
    end_idx_arg,    \* rdp: argument _end_idx
    rdp_pc,         \* "idle" | "called" | "again"
    rdp_res,        \* outcome of rdp(points, epsilon, out, start_idx, step, _end_idx)
    rdp_res2,       \* outcome of rdp on the output of the first call
    gss_in,         \* golden_section_search: arguments f, a, b, tol
    gss_pc,         \* "idle" | "returned"
    gss_res         \* what the call returned and what it did on the way

vars == <<inner_border, outer_border, mesh_pc, out_mesh, road_id, road_set, road_inserted,
          points, epsilon, start_idx, step, end_idx_arg, rdp_pc, rdp_res, rdp_res2,
          gss_in, gss_pc, gss_res>>

meshVars == <<inner_border, outer_border, mesh_pc, out_mesh>>
roadVars == <<road_id, road_set, road_inserted>>
rdpVars  == <<points, epsilon, start_idx, step, end_idx_arg, rdp_pc, rdp_res, rdp_res2>>
gssVars  == <<gss_in, gss_pc, gss_res>>

(***************************************************************************)
(* size_t arithmetic.  The code's size_t is 64 bits wide; the model keeps  *)
(* the wrap-around but at 16 bits, which TLC's integers can hold.  Both    *)
(* moduli are even and congruent modulo every stride the model uses.       *)
(***************************************************************************)
SizeMod == 65536

SizeT(x) == x % SizeMod

\* All sequences over S of length 0..n
SeqsUpTo(S, n) == UNION {[1..k -> S] : k \in 0..n}

(***************************************************************************)
(*                    generate_mesh_from_borders                           *)
(***************************************************************************)
MaxBorder == 4      \* longest border line
MaxVec    == 1      \* Vec3D values are drawn from 0..MaxVec

Vec3Ds == 0..MaxVec

EmptyMesh == [vertices |-> <<>>, indices |-> <<>>]

\* inner_border.rbegin() .. inner_border.rend()
ReversedForward(line) == [i \in 1..Len(line) |-> line[i]]
Reversed(line) == [i \in 1..Len(line) |-> line[Len(line) + 1 - i]]

\* r_idx = num_pts - 2, in size_t
InitRIdxMinusOne(num_pts) == SizeT(num_pts - 1)
InitRIdx(num_pts) == SizeT(num_pts - 2)

\* l_idx < (num_pts >> 1)
MeshLoopCond(l_idx, num_pts) == l_idx < (num_pts \div 2)

\* {l_idx, l_idx - 1, r_idx + 1, r_idx, l_idx, r_idx + 1}
IndiciesPatch(l_idx, r_idx) ==
    <<l_idx, SizeT(l_idx - 1), SizeT(r_idx + 1), r_idx, l_idx, SizeT(r_idx + 1)>>

\* the for loop of lines 60-64, from the state (l_idx, r_idx, indices)
RECURSIVE MeshLoop(_, _, _, _)
MeshLoop(l_idx, r_idx, num_pts, indices) ==
    IF MeshLoopCond(l_idx, num_pts)
    THEN MeshLoop(SizeT(l_idx + 1), SizeT(r_idx - 1), num_pts,
                  indices \o IndiciesPatch(l_idx, r_idx))
    ELSE indices

\* inner_border.size() != outer_border.size()
BorderMismatchNever(inner, outer) == FALSE
BorderMismatch(inner, outer) == Len(inner) # Len(outer)

\* The whole call: whether it threw, and the local out_mesh at that moment.
GenerateMeshFromBorders(inner, outer) ==
    IF BorderMismatch(inner, outer)
    THEN [thrown |-> TRUE, mesh |-> EmptyMesh]
    ELSE LET vertices == outer \o Reversed(inner)
             num_pts  == Len(vertices)
         IN  [thrown |-> FALSE,
              mesh   |-> [vertices |-> vertices,
                          indices  |-> MeshLoop(1, InitRIdx(num_pts), num_pts, <<>>)]]

MeshIdle ==
    /\ inner_border = <<>>
    /\ outer_border = <<>>
    /\ mesh_pc = "idle"
    /\ out_mesh = EmptyMesh

InitMesh ==
    /\ inner_border \in SeqsUpTo(Vec3Ds, MaxBorder)
    /\ outer_border \in SeqsUpTo(Vec3Ds, MaxBorder)
    /\ mesh_pc = "idle"
    /\ out_mesh = EmptyMesh

CallGenerateMesh ==
    /\ mesh_pc = "idle"
    /\ LET r == GenerateMeshFromBorders(inner_border, outer_border)
       IN  /\ mesh_pc' = IF r.thrown THEN "thrown" ELSE "returned"
           /\ out_mesh' = r.mesh
    /\ UNCHANGED <<inner_border, outer_border, roadVars, rdpVars, gssVars>>

(***************************************************************************)
(*                              RoadSet                                    *)
(***************************************************************************)
MaxRoads  == 3      \* Road objects constructed
MaxRoadId == 3      \* Road::id is drawn from 1..MaxRoadId

RoadIds == 1..MaxRoadId

\* SharedPtrCmp<Road, int, &Road::id>: (*lhs).*member < (*rhs).*member
SharedPtrCmpByPointer(lhs, rhs) == lhs < rhs
SharedPtrCmp(lhs, rhs) == road_id[lhs] < road_id[rhs]

\* std::set::insert under the comparator: the first position whose element is
\* not ordered before r; r is equivalent to that element when r is not ordered
\* before it either, and then nothing is inserted.
LowerBound(s, r) ==
    IF \E k \in 1..Len(s) : ~SharedPtrCmp(s[k], r)
    THEN CHOOSE k \in 1..Len(s) :
            /\ ~SharedPtrCmp(s[k], r)
            /\ \A j \in 1..(k - 1) : SharedPtrCmp(s[j], r)
    ELSE Len(s) + 1

SetInsert(s, r) ==
    LET k == LowerBound(s, r)
    IN  IF k <= Len(s) /\ ~SharedPtrCmp(r, s[k])
        THEN s
        ELSE SubSeq(s, 1, k - 1) \o <<r>> \o SubSeq(s, k, Len(s))

RoadIdle ==
    /\ road_id = <<>>
    /\ road_set = <<>>
    /\ road_inserted = {}

InitRoadSet == RoadIdle

\* Road(length, id, junction): a new object, named by its place in the heap
ConstructRoad(id) ==
    /\ Len(road_id) < MaxRoads
    /\ road_id' = Append(road_id, id)
    /\ UNCHANGED <<road_set, road_inserted, meshVars, rdpVars, gssVars>>

\* road_set.insert(r)
InsertRoad(r) ==
    /\ road_set' = SetInsert(road_set, r)
    /\ road_inserted' = road_inserted \cup {r}
    /\ UNCHANGED <<road_id, meshVars, rdpVars, gssVars>>

(***************************************************************************)
(*                                 rdp                                     *)
(* Points are Vec<T, 2> with integer coordinates; indices are 0-based as   *)
(* in the code.  Distances are kept exactly, as the square d^2 = num/den   *)
(* of the value the code computes: with delta = p[last] - p[start] and     *)
(* pv = p[idx] - p[start], the code's a = pv - (pv.u)u for u = delta/mag   *)
(* has |a|^2 = (|pv|^2 |delta|^2 - (pv.delta)^2) / |delta|^2 when mag > 0, *)
(* and a = pv when mag = 0 (delta is left unnormalised, and is zero).      *)
(* Rounding of the floating-point operations is not modelled.              *)
(***************************************************************************)
MaxLen      == 4    \* longest point sequence of SpecRdp
MaxRangeLen == 4    \* longest point sequence of SpecRdpRange
MaxCoord    == 2    \* x coordinates are drawn from 0..MaxCoord
MaxEps      == 1    \* epsilon is drawn from 0..MaxEps (and -1 in SpecRdpRange)
MaxStep     == 2    \* step is drawn from 1..MaxStep

Vecs == (0..MaxCoord) \X (0..1)
\* SpecRdpRange varies start_idx, step and _end_idx as well, over the unit square
RangeVecs == (0..1) \X (0..1)

\* The call stack is finite: a call nested deeper than this overflows it.
StackLimit == MaxLen + 3

At(pts, i) == pts[i + 1]
InRange(pts, i) == i >= 0 /\ i < Len(pts)

Sub(u, v) == <<u[1] - v[1], u[2] - v[2]>>
Dot(u, v) == u[1] * v[1] + u[2] * v[2]

\* size_t end_idx = (_end_idx > 0) ? static_cast<size_t>(_end_idx) : points.size()
EndIdx(pts, e) == IF e > 0 THEN e ELSE Len(pts)

\* size_t last_idx = ((end_idx - start_idx - 1) / step) * step + start_idx
LastIdxUnaligned(s, st, end_idx) == SizeT(end_idx - 1)
LastIdx(s, st, end_idx) == SizeT((SizeT(end_idx - s - 1) \div st) * st + s)

\* (last_idx + 1 - start_idx) < 2
TooShort(s, last_idx) == SizeT(last_idx + 1 - s) < 2

\* idx = start_idx + step
LoopStartSkip(s, st) == SizeT(s + 2 * st)
LoopStart(s, st) == SizeT(s + st)

\* lines 147-184: the square of d for the point at idx
Dist2(pts, s, last_idx, idx) ==
    LET delta == Sub(At(pts, last_idx), At(pts, s))
        mag2  == Dot(delta, delta)
        pv    == Sub(At(pts, idx), At(pts, s))
    IN  IF mag2 > 0
        THEN [num |-> Dot(pv, pv) * mag2 - Dot(pv, delta) * Dot(pv, delta), den |-> mag2]
        ELSE [num |-> Dot(pv, pv), den |-> 1]

\* d > d_max
GreaterDist(d, d_max) == d.num * d_max.den > d_max.num * d.den

\* d_max > epsilon
ExceedsEpsDoubled(d_max, eps) == eps < 0 \/ d_max.num > 4 * eps * eps * d_max.den
ExceedsEps(d_max, eps) == eps < 0 \/ d_max.num > eps * eps * d_max.den

\* the for loop of lines 145-191 from idx on: d_max, d_max_idx, and whether a
\* points.at() threw std::out_of_range
RECURSIVE FindMax(_, _, _, _, _, _, _)
FindMax(pts, s, st, last_idx, idx, d_max, d_max_idx) ==
    IF ~(idx < last_idx)
    THEN [thrown |-> FALSE, d_max |-> d_max, d_max_idx |-> d_max_idx]
    ELSE IF ~(InRange(pts, last_idx) /\ InRange(pts, s) /\ InRange(pts, idx))
    THEN [thrown |-> TRUE, d_max |-> d_max, d_max_idx |-> d_max_idx]
    ELSE LET d == Dist2(pts, s, last_idx, idx)
         IN  IF GreaterDist(d, d_max)
             THEN FindMax(pts, s, st, last_idx, idx + st, d, idx)
             ELSE FindMax(pts, s, st, last_idx, idx + st, d_max, d_max_idx)

\* What a call of rdp leaves: how it ended, the vector out (with, beside it,
\* the index in points each entry was copied from), the deepest nesting of
\* calls it reached, and whether every split index it recursed on lay
\* strictly between the start_idx and the last_idx of its range.
RdpEnd(status, out, from, depth, splits_ok) ==
    [status |-> status, out |-> out, from |-> from, depth |-> depth,
     splits_ok |-> splits_ok]

\* out.assign(rec_results_1.begin(), rec_results_1.end() - 1);
\* out.insert(out.end(), rec_results_2.begin(), rec_results_2.end())
Join(r1, r2) == SubSeq(r1, 1, Len(r1) - 1) \o r2

\* out.clear(); out.push_back(points.at(start_idx)); out.push_back(points.at(last_idx))
Collapse(s, last_idx) == <<s, last_idx>>

RECURSIVE Rdp(_, _, _, _, _, _)
Rdp(pts, eps, s, st, e, depth) ==
    IF depth > StackLimit THEN RdpEnd("overflow", <<>>, <<>>, depth, TRUE) ELSE
    LET end_idx  == EndIdx(pts, e)
        last_idx == LastIdx(s, st, end_idx)
    IN  IF TooShort(s, last_idx) THEN RdpEnd("ok", <<>>, <<>>, depth, TRUE) ELSE
    LET m == FindMax(pts, s, st, last_idx, LoopStart(s, st), [num |-> 0, den |-> 1], 0)
    IN  IF m.thrown THEN RdpEnd("out_of_range", <<>>, <<>>, depth, TRUE) ELSE
        IF ExceedsEps(m.d_max, eps)
        THEN LET split_ok == s < m.d_max_idx /\ m.d_max_idx < last_idx
                 r1 == Rdp(pts, eps, s, st, m.d_max_idx + 1, depth + 1)
                 r2 == Rdp(pts, eps, m.d_max_idx, st, end_idx, depth + 1)
                 deepest == IF r1.depth > r2.depth THEN r1.depth ELSE r2.depth
             IN  IF r1.status # "ok"
                 THEN RdpEnd(r1.status, <<>>, <<>>, r1.depth, split_ok /\ r1.splits_ok)
                 ELSE IF r2.status # "ok"
                 THEN RdpEnd(r2.status, <<>>, <<>>, deepest,
                             split_ok /\ r1.splits_ok /\ r2.splits_ok)
                 ELSE IF r1.out = <<>>
                 \* rec_results_1.end() - 1 of an empty vector: undefined behaviour
                 THEN RdpEnd("undefined", <<>>, <<>>, deepest,
                             split_ok /\ r1.splits_ok /\ r2.splits_ok)
                 ELSE RdpEnd("ok", Join(r1.out, r2.out), Join(r1.from, r2.from), deepest,
                             split_ok /\ r1.splits_ok /\ r2.splits_ok)
        ELSE IF ~(InRange(pts, s) /\ InRange(pts, last_idx))
        THEN RdpEnd("out_of_range", <<>>, <<>>, depth, TRUE)
        ELSE LET from == Collapse(s, last_idx)
             IN  RdpEnd("ok", [i \in 1..Len(from) |-> At(pts, from[i])], from, depth, TRUE)

NoRdp == RdpEnd("none", <<>>, <<>>, 0, TRUE)

RdpIdle ==
    /\ points = <<>>
    /\ epsilon = 0
    /\ start_idx = 0
    /\ step = 1
    /\ end_idx_arg = -1
    /\ rdp_pc = "idle"
    /\ rdp_res = NoRdp
    /\ rdp_res2 = NoRdp

\* rdp(points, epsilon, out): start_idx = 0, step = 1, _end_idx = -1
InitRdp ==
    /\ points \in SeqsUpTo(Vecs, MaxLen)
    /\ epsilon \in 0..MaxEps
    /\ start_idx = 0
    /\ step = 1
    /\ end_idx_arg = -1
    /\ rdp_pc = "idle"
    /\ rdp_res = NoRdp
    /\ rdp_res2 = NoRdp

\* rdp(points, epsilon, out, start_idx, step, _end_idx)
InitRdpRange ==
    /\ points \in SeqsUpTo(RangeVecs, MaxRangeLen)
    /\ epsilon \in (-1)..MaxEps
    /\ start_idx \in 0..1
    /\ step \in 1..MaxStep
    /\ end_idx_arg \in (-1)..Len(points)
    /\ rdp_pc = "idle"
    /\ rdp_res = NoRdp
    /\ rdp_res2 = NoRdp

CallRdp ==
    /\ rdp_pc = "idle"
    /\ rdp_pc' = "called"
    /\ rdp_res' = Rdp(points, epsilon, start_idx, step, end_idx_arg, 1)
    /\ UNCHANGED <<points, epsilon, start_idx, step, end_idx_arg, rdp_res2,
                   meshVars, roadVars, gssVars>>

\* rdp(out, epsilon, out2), on the vector the first call filled
CallRdpAgain ==
    /\ rdp_pc = "called"
    /\ rdp_res.status = "ok"
    /\ rdp_pc' = "again"
    /\ rdp_res2' = Rdp(rdp_res.out, epsilon, 0, 1, -1, 1)
    /\ UNCHANGED <<points, epsilon, start_idx, step, end_idx_arg, rdp_res,
                   meshVars, roadVars, gssVars>>

(***************************************************************************)
(*                        golden_section_search                            *)
(* T is double.  With integer a, b and tol, every value the search forms   *)
(* lies in Z[invphi]/2, where invphi = (sqrt(5) - 1)/2 satisfies           *)
(* invphi^2 = 1 - invphi = invphi2.  A value x is kept exactly as the pair *)
(* [m, n] with 2x = m + n*invphi.  Rounding of the floating-point          *)
(* operations is not modelled.                                             *)
(***************************************************************************)
MaxB     == 10      \* b is drawn from 0..MaxB, a from 0..1
MaxTol   == 2       \* tol is drawn from 1..MaxTol
MaxSlope == 2       \* the slopes of f are drawn from 1..MaxSlope

Num(k) == [m |-> 2 * k, n |-> 0]
Plus(x, y) == [m |-> x.m + y.m, n |-> x.n + y.n]
Minus(x, y) == [m |-> x.m - y.m, n |-> x.n - y.n]
Scale(k, x) == [m |-> k * x.m, n |-> k * x.n]

\* invphi * x
MulInvphi(x) == [m |-> x.n, n |-> x.m - x.n]
\* invphi2 * x
MulInvphi2(x) == [m |-> x.m - x.n, n |-> 2 * x.n - x.m]
\* 0.5 * x
Half(x) == [m |-> x.m \div 2, n |-> x.n \div 2]

\* x > 0:  m + n*invphi > 0  iff  (2m - n) + n*sqrt(5) > 0
Positive(x) ==
    LET u == 2 * x.m - x.n
        n == x.n
    IN  \/ u >= 0 /\ n >= 0 /\ (u > 0 \/ n > 0)
        \/ u >= 0 /\ n < 0 /\ u * u > 5 * n * n
        \/ u < 0 /\ n > 0 /\ 5 * n * n > u * u

Less(x, y) == Positive(Minus(y, x))
Leq(x, y) == ~Positive(Minus(x, y))

\* The function argument f: decreasing with slope -lslope before its minimum
\* xmin, increasing with slope rslope after it.
F(f, x) ==
    IF Less(x, f.xmin)
    THEN Scale(f.lslope, Minus(f.xmin, x))
    ELSE Scale(f.rslope, Minus(x, f.xmin))

\* h <= tol
DegenerateStrict(h, tol) == Less(h, tol)
Degenerate(h, tol) == Leq(h, tol)

\* yc < yd
ProbeLessFlipped(yc, yd) == Less(yd, yc)
ProbeLess(yc, yd) == Less(yc, yd)

\* int n = ceil(log(tol / h) / log(invphi)): the least n with invphi^n * h <= tol,
\* counted from n with hn = invphi^n * h
RECURSIVE StepsFrom(_, _, _)
StepsFrom(hn, tol, n) ==
    IF Leq(hn, tol) THEN n ELSE StepsFrom(MulInvphi(hn), tol, n + 1)

StepsNeeded(h, tol) == StepsFrom(h, tol, 0)

\* One pass of the loop body, lines 106-123.  st.kept lists the bracket [a, b]
\* each pass left.
GssStep(f, st) ==
    IF ProbeLess(st.yc, st.yd)
    THEN LET h == MulInvphi(st.h)
             c == Plus(st.a, MulInvphi2(h))
         IN  [a |-> st.a, b |-> st.d, c |-> c, d |-> st.c, yc |-> F(f, c), yd |-> st.yc,
              h |-> h, evals |-> st.evals + 1,
              kept |-> Append(st.kept, [a |-> st.a, b |-> st.d])]
    ELSE LET h == MulInvphi(st.h)
             d == Plus(st.c, MulInvphi(h))
         IN  [a |-> st.c, b |-> st.b, c |-> st.d, d |-> d, yc |-> st.yd, yd |-> F(f, d),
              h |-> h, evals |-> st.evals + 1,
              kept |-> Append(st.kept, [a |-> st.c, b |-> st.b])]

\* for (int k = 0; k < (n - 1); k++)
RECURSIVE GssLoop(_, _, _, _)
GssLoop(f, st, k, n) ==
    IF k < n - 1 THEN GssLoop(f, GssStep(f, st), k + 1, n) ELSE st

\* The whole call: the value returned, the number of times f was called, n,
\* the brackets the loop kept and the bracket whose midpoint is returned.
GoldenSectionSearch(f, a, b, tol) ==
    LET h == Minus(b, a)
    IN  IF Degenerate(h, tol)
        THEN [ret |-> Half(Plus(a, b)), evals |-> 0, n |-> 0, kept |-> <<>>,
              last |-> [a |-> a, b |-> b]]
        ELSE LET n  == StepsNeeded(h, tol)
                 c  == Plus(a, MulInvphi2(h))
                 d  == Plus(a, MulInvphi(h))
                 st == GssLoop(f, [a |-> a, b |-> b, c |-> c, d |-> d,
                                   yc |-> F(f, c), yd |-> F(f, d),
                                   h |-> h, evals |-> 2, kept |-> <<>>], 0, n)
             IN  IF ProbeLess(st.yc, st.yd)
                 THEN [ret |-> Half(Plus(st.a, st.d)), evals |-> st.evals, n |-> n,
                       kept |-> st.kept, last |-> [a |-> st.a, b |-> st.d]]
                 ELSE [ret |-> Half(Plus(st.c, st.b)), evals |-> st.evals, n |-> n,
                       kept |-> st.kept, last |-> [a |-> st.c, b |-> st.b]]

NoGss == [ret |-> Num(0), evals |-> 0, n |-> 0, kept |-> <<>>,
          last |-> [a |-> Num(0), b |-> Num(0)]]

GssIdle ==
    /\ gss_in = [a |-> 0, b |-> 0, tol |-> 1,
                 f |-> [xmin |-> Num(0), lslope |-> 1, rslope |-> 1]]
    /\ gss_pc = "idle"
    /\ gss_res = NoGss

\* f has its minimum at a multiple of 1/2 inside [a, b] (anywhere when b < a)
InitGss ==
    /\ \E a \in 0..1, b \in 0..MaxB, tol \in 1..MaxTol,
          x2 \in 0..(2 * MaxB), l \in 1..MaxSlope, r \in 1..MaxSlope :
          /\ b >= a => (2 * a <= x2 /\ x2 <= 2 * b)
          /\ gss_in = [a |-> a, b |-> b, tol |-> tol,
                       f |-> [xmin |-> Half(Num(x2)), lslope |-> l, rslope |-> r]]
    /\ gss_pc = "idle"
    /\ gss_res = NoGss

CallGoldenSectionSearch ==
    /\ gss_pc = "idle"
    /\ gss_pc' = "returned"
    /\ gss_res' = GoldenSectionSearch(gss_in.f, Num(gss_in.a), Num(gss_in.b), Num(gss_in.tol))
    /\ UNCHANGED <<gss_in, meshVars, roadVars, rdpVars>>

(***************************************************************************)
(*                          Specifications                                 *)
(***************************************************************************)
NextMesh == CallGenerateMesh
InitSpecMesh == InitMesh /\ RoadIdle /\ RdpIdle /\ GssIdle
SpecMesh == InitSpecMesh /\ [][NextMesh]_vars

NextRoadSet ==
    \/ \E id \in RoadIds : ConstructRoad(id)
    \/ \E r \in 1..Len(road_id) : InsertRoad(r)
InitSpecRoadSet == MeshIdle /\ InitRoadSet /\ RdpIdle /\ GssIdle
SpecRoadSet == InitSpecRoadSet /\ [][NextRoadSet]_vars

NextRdp == CallRdp \/ CallRdpAgain
InitSpecRdp == MeshIdle /\ RoadIdle /\ InitRdp /\ GssIdle
SpecRdp == InitSpecRdp /\ [][NextRdp]_vars
InitSpecRdpRange == MeshIdle /\ RoadIdle /\ InitRdpRange /\ GssIdle
SpecRdpRange == InitSpecRdpRange /\ [][NextRdp]_vars

NextGss == CallGoldenSectionSearch
InitSpecGss == MeshIdle /\ RoadIdle /\ RdpIdle /\ InitGss
SpecGss == InitSpecGss /\ [][NextGss]_vars

(***************************************************************************)
(*                               Claims                                    *)
(***************************************************************************)
Max(x, y) == IF x > y THEN x ELSE y

\* C1: for two borders of the same point count N >= 1 generate_mesh_from_borders
\* returns a mesh with exactly 2N vertices, the outer border in order followed
\* by the inner border in reverse order, and exactly 6*(N-1) index entries.
C1_MeshShape ==
    LET N == Len(inner_border)
    IN  (mesh_pc # "idle" /\ Len(outer_border) = N /\ N >= 1) =>
            /\ mesh_pc = "returned"
            /\ Len(out_mesh.vertices) = 2 * N
            /\ \A i \in 1..N : /\ out_mesh.vertices[i] = outer_border[i]
                               /\ out_mesh.vertices[N + i] = inner_border[N + 1 - i]
            /\ Len(out_mesh.indices) = 6 * (N - 1)

\* N = 4 with an inner border that differs from its reverse: 8 vertices, 18 entries
C1_Witness ==
    /\ mesh_pc = "returned"
    /\ Len(inner_border) = 4
    /\ inner_border[1] # inner_border[4]
    /\ Len(out_mesh.vertices) = 8
    /\ Len(out_mesh.indices) = 18

\* C2: when the two borders differ in point count the call ends in the
\* exception, and out_mesh holds no vertex and no index at that moment.
C2_MismatchThrows ==
    (mesh_pc # "idle" /\ Len(inner_border) # Len(outer_border)) =>
        /\ mesh_pc = "thrown"
        /\ out_mesh.vertices = <<>>
        /\ out_mesh.indices = <<>>

C2_Witness ==
    /\ mesh_pc = "thrown"
    /\ Len(inner_border) = 3
    /\ Len(outer_border) = 4

\* C10: for equal-length borders of any point count N >= 0, every entry of the
\* index buffer is less than the number of vertices of the returned mesh.
C10_IndicesInRange ==
    mesh_pc = "returned" =>
        \A k \in 1..Len(out_mesh.indices) :
            /\ out_mesh.indices[k] >= 0
            /\ out_mesh.indices[k] < Len(out_mesh.vertices)

\* a returned mesh whose index buffer names its last vertex
C10_Witness ==
    /\ mesh_pc = "returned"
    /\ Len(inner_border) >= 2
    /\ \E k \in 1..Len(out_mesh.indices) :
           out_mesh.indices[k] = Len(out_mesh.vertices) - 1

\* C8: after any sequence of insertions, iterating the RoadSet visits the
\* roads in strictly ascending id order (so it holds at most one road per
\* id), it holds only roads that were inserted, and the id of every inserted
\* road is the id of exactly one element.
C8_RoadSetOrdered ==
    /\ \A i, j \in 1..Len(road_set) :
           i < j => road_id[road_set[i]] < road_id[road_set[j]]
    /\ \A k \in 1..Len(road_set) : road_set[k] \in road_inserted
    /\ \A r \in road_inserted :
           Cardinality({k \in 1..Len(road_set) : road_id[road_set[k]] = road_id[r]}) = 1

\* two distinct Road objects of one id were both inserted, beside a third road
C8_Witness ==
    /\ Len(road_set) = 2
    /\ \E r1, r2 \in road_inserted : r1 # r2 /\ road_id[r1] = road_id[r2]

\* The indices of the range [start_idx, end_idx) that rdp looks at: those a
\* whole number of strides after start_idx.
Aligned(s, st, end_idx) == {i \in s..(end_idx - 1) : (i - s) % st = 0}

\* C3 as stated: on a range with at least two points rdp's output begins with
\* points[start_idx] and ends with points[end_idx - 1].
C3_EndsAtEndIdx ==
    LET end_idx == EndIdx(points, end_idx_arg)
    IN  (rdp_pc # "idle" /\ epsilon >= 0 /\ start_idx + step < end_idx) =>
            /\ rdp_res.status = "ok"
            /\ Len(rdp_res.out) >= 2
            /\ rdp_res.out[1] = At(points, start_idx)
            /\ rdp_res.out[Len(rdp_res.out)] = At(points, end_idx - 1)

\* C3, amended: on a range with at least two stride-aligned points
\* (start_idx + step < end_idx), rdp returns whenever epsilon >= 0, and
\* whenever it returns its output begins with points[start_idx] and ends with
\* the last stride-aligned point of the range.
C3_EndsAtLastAligned ==
    LET end_idx == EndIdx(points, end_idx_arg)
        al      == Aligned(start_idx, step, end_idx)
    IN  (rdp_pc # "idle" /\ start_idx + step < end_idx) =>
            /\ epsilon >= 0 => rdp_res.status = "ok"
            /\ rdp_res.status = "ok" =>
                  /\ Len(rdp_res.out) >= 2
                  /\ rdp_res.out[1] = At(points, start_idx)
                  /\ \E i \in al : /\ \A j \in al : j <= i
                                   /\ rdp_res.out[Len(rdp_res.out)] = At(points, i)

\* a stride of 2 over a range whose last point is not stride-aligned, and
\* differs from the last aligned one
C3_Witness ==
    /\ rdp_pc = "called"
    /\ rdp_res.status = "ok"
    /\ step = 2
    /\ start_idx = 0
    /\ EndIdx(points, end_idx_arg) = 4
    /\ Len(rdp_res.out) = 2
    /\ At(points, 2) # At(points, 3)
    /\ rdp_res.out[2] = At(points, 2)

\* C4: rdp is idempotent: for at least 2 points and epsilon >= 0, rdp on the
\* output of rdp, with the same epsilon, returns that same output.
C4_Idempotent ==
    (rdp_pc = "again" /\ Len(points) >= 2 /\ epsilon >= 0) =>
        /\ rdp_res2.status = "ok"
        /\ rdp_res2.out = rdp_res.out

\* a first call that dropped one point and kept an inner one, then the second
C4_Witness ==
    /\ rdp_pc = "again"
    /\ Len(points) = 4
    /\ Len(rdp_res.out) = 3
    /\ rdp_res2.status = "ok"

\* The point p lies within eps of the line through q1 and q2 (of q1 itself
\* when q1 = q2): the cross product form of the perpendicular distance.
WithinEps(p, q1, q2, eps) ==
    LET dx == q2[1] - q1[1]
        dy == q2[2] - q1[2]
        px == p[1] - q1[1]
        py == p[2] - q1[2]
        cr == dx * py - dy * px
    IN  IF dx = 0 /\ dy = 0
        THEN px * px + py * py <= eps * eps
        ELSE cr * cr <= eps * eps * (dx * dx + dy * dy)

\* C5: for at least 2 points and epsilon >= 0 (stride 1, whole sequence) the
\* retained points are taken at increasing indices from the first to the last
\* point, and every input point lies within epsilon of the line through the
\* two consecutive retained points whose indices bracket it.
C5_WithinEpsilon ==
    (rdp_pc # "idle" /\ Len(points) >= 2 /\ epsilon >= 0) =>
        LET from == rdp_res.from
        IN  /\ rdp_res.status = "ok"
            /\ Len(from) >= 2
            /\ Len(rdp_res.out) = Len(from)
            /\ from[1] = 0
            /\ from[Len(from)] = Len(points) - 1
            /\ \A k \in 1..Len(from) : rdp_res.out[k] = At(points, from[k])
            /\ \A k \in 1..(Len(from) - 1) :
                  /\ from[k] < from[k + 1]
                  /\ \A i \in from[k]..from[k + 1] :
                        WithinEps(At(points, i), At(points, from[k]),
                                  At(points, from[k + 1]), epsilon)

\* a point off the line of its two retained neighbours was dropped
C5_Witness ==
    /\ rdp_pc = "called"
    /\ epsilon = 1
    /\ Len(points) = 4
    /\ rdp_res.status = "ok"
    /\ Len(rdp_res.from) = 3
    /\ \E k \in 1..2 : \E i \in rdp_res.from[k]..rdp_res.from[k + 1] :
           ~WithinEps(At(points, i), At(points, rdp_res.from[k]),
                      At(points, rdp_res.from[k + 1]), 0)

\* The number of stride-aligned points of the range of the outermost call
RangePoints == Cardinality(Aligned(start_idx, step, EndIdx(points, end_idx_arg)))

\* C9: rdp terminates for every point sequence and every epsilon of any sign,
\* nesting its calls no deeper than the number of points of the range, and
\* every split index lies strictly between the first and the last index.
C9_Terminates ==
    (rdp_pc # "idle" /\ start_idx < EndIdx(points, end_idx_arg)) =>
        /\ rdp_res.status = "ok"
        /\ rdp_res.depth <= Max(1, RangePoints)
        /\ rdp_res.splits_ok

Abs2(x) == IF Positive(x) THEN x ELSE Minus(Num(0), x)

\* xmin lies in the bracket br
Brackets(br, xmin) == Leq(br.a, xmin) /\ Leq(xmin, br.b)

\* C6: for f with a single minimum xmin in [a, b] and 0 < tol < b - a the
\* value returned is within tol of xmin: every bracket an iteration keeps
\* contains xmin, and so does the last one, which is no wider than tol and
\* whose midpoint is returned.
C6_WithinTol ==
    (gss_pc = "returned" /\ 0 < gss_in.tol /\ gss_in.tol < gss_in.b - gss_in.a) =>
        LET xmin == gss_in.f.xmin
            tol  == Num(gss_in.tol)
        IN  /\ Leq(Abs2(Minus(gss_res.ret, xmin)), tol)
            /\ Len(gss_res.kept) = gss_res.n - 1
            /\ \A k \in 1..Len(gss_res.kept) : Brackets(gss_res.kept[k], xmin)
            /\ Brackets(gss_res.last, xmin)
            /\ Leq(Minus(gss_res.last.b, gss_res.last.a), tol)

\* a search of several iterations for a minimum strictly inside the interval
C6_Witness ==
    /\ gss_pc = "returned"
    /\ gss_in.a = 0 /\ gss_in.b = 7 /\ gss_in.tol = 1
    /\ gss_in.f.xmin = Half(Num(5))
    /\ gss_in.f.lslope # gss_in.f.rslope
    /\ Len(gss_res.kept) = 4

\* C7: whenever b - a <= tol the midpoint (a + b) / 2 is returned and f is
\* not evaluated.
C7_DegenerateMidpoint ==
    (gss_pc = "returned" /\ gss_in.b - gss_in.a <= gss_in.tol) =>
        /\ Scale(2, gss_res.ret) = Num(gss_in.a + gss_in.b)
        /\ gss_res.evals = 0

\* the boundary case b - a = tol
C7_Witness ==
    /\ gss_pc = "returned"
    /\ gss_in.b - gss_in.a = gss_in.tol
    /\ gss_res.evals = 0

============================================================================
